---- MODULE Spec2Model ----
(***************************************************************************)
(* Model of the documentation crawler of PagePilot (src/scraper.py):       *)
(* DocumentationScraper.discover_urls and the helpers it calls (Spec), the *)
(* URL validator and the text extractor run on their own (ValidSpec,       *)
(* TextSpec), and the functions of the application in src/main.py          *)
(* (AppSpec).                                                              *)
(*                                                                         *)
(* A Python str is a sequence of one-character strings; Ord gives the code *)
(* point that Python's str comparison (and so sorted()) uses.  URL parsing *)
(* and joining work on these characters, as urllib.parse does.             *)
(***************************************************************************)
EXTENDS Integers, Sequences, FiniteSets, TLC

\* ------------------------------------------------------------------------
\* Bounds of the model
\* ------------------------------------------------------------------------
\* largest chunk_size passed to discover_urls (the smallest is -1)
MaxChunk == 2
\* largest number of <a href> links on the whole generated site
MaxEdges == 2

\* ------------------------------------------------------------------------
\* Strings
\* ------------------------------------------------------------------------
Letters == {"a", "b", "c", "d", "f", "h", "i", "l", "m", "o", "p", "q", "s", "t"}

\* code points of the characters that occur in the modelled URLs
Ord(c) ==
    CASE c = "#" -> 35  [] c = "." -> 46  [] c = "/" -> 47  [] c = ":" -> 58
      [] c = "?" -> 63  [] c = "@" -> 64  [] c = "[" -> 91  [] c = "]" -> 93
      [] c = "a" -> 97  [] c = "b" -> 98  [] c = "c" -> 99  [] c = "d" -> 100
      [] c = "f" -> 102 [] c = "h" -> 104 [] c = "i" -> 105 [] c = "l" -> 108
      [] c = "m" -> 109 [] c = "o" -> 111 [] c = "p" -> 112 [] c = "q" -> 113
      [] c = "s" -> 115 [] c = "t" -> 116

\* c in s
In(c, s) == \E i \in 1..Len(s) : s[i] = c

\* s.find(c) + 1 : index of the first c in s, 0 when there is none
Find(s, c) ==
    IF In(c, s) THEN CHOOSE i \in 1..Len(s) : s[i] = c /\ \A j \in 1..(i-1) : s[j] # c
    ELSE 0

\* s.rfind(c) + 1
RFind(s, c) ==
    IF In(c, s) THEN CHOOSE i \in 1..Len(s) : s[i] = c /\ \A j \in (i+1)..Len(s) : s[j] # c
    ELSE 0

\* s[:n]
Take(s, n) == SubSeq(s, 1, IF n < Len(s) THEN n ELSE Len(s))

\* s[n:]  (n counted from 0 as in Python)
Drop(s, n) == SubSeq(s, n + 1, Len(s))

\* s.split(c)[0]
SplitHead(s, c) == IF In(c, s) THEN Take(s, Find(s, c) - 1) ELSE s

\* s.split(c, 1)[1], for s that contains c
SplitTail(s, c) == Drop(s, Find(s, c))

\* Python's s < t on str: first differing code point, a proper prefix is smaller
RECURSIVE StrLess(_, _)
StrLess(s, t) ==
    IF t = <<>> THEN FALSE
    ELSE IF s = <<>> THEN TRUE
    ELSE IF Ord(Head(s)) # Ord(Head(t)) THEN Ord(Head(s)) < Ord(Head(t))
    ELSE StrLess(Tail(s), Tail(t))

\* sorted(list(S)) for a set S of str
RECURSIVE sorted(_)
sorted(S) ==
    IF S = {} THEN <<>>
    ELSE LET m == CHOOSE x \in S : \A y \in S \ {x} : StrLess(x, y)
         IN  <<m>> \o sorted(S \ {m})

Range(f) == {f[i] : i \in DOMAIN f}

\* ------------------------------------------------------------------------
\* urllib.parse, as far as the crawler uses it
\* ------------------------------------------------------------------------
S_HTTP  == <<"h", "t", "t", "p">>
S_HTTPS == <<"h", "t", "t", "p", "s">>
S_FTP   == <<"f", "t", "p">>
S_MAILTO == <<"m", "a", "i", "l", "t", "o">>

\* urllib.parse.uses_relative / uses_netloc, restricted to the schemes above
uses_relative == {<<>>, S_HTTP, S_HTTPS, S_FTP}
uses_netloc   == {<<>>, S_HTTP, S_HTTPS, S_FTP}

\* urlsplit: url[:i] is a scheme when i > 0, url[0] is a letter and every
\* character before the first ':' is a scheme character
HasScheme(url) ==
    LET i == Find(url, ":")
    IN  i > 1 /\ \A j \in 1..(i-1) : url[j] \in Letters

\* the part of url after "scheme:"
AfterScheme(url) == IF HasScheme(url) THEN Drop(url, Find(url, ":")) ELSE url

\* _splitnetloc(url, 2): the netloc ends at the first of '/', '?', '#'
NetlocEnd(rest) ==
    LET stops == {i \in 3..Len(rest) : rest[i] \in {"/", "?", "#"}}
    IN  IF stops = {} THEN Len(rest) + 1
        ELSE CHOOSE i \in stops : \A j \in stops : i <= j

HasNetloc(url) == Take(AfterScheme(url), 2) = <<"/", "/">>

NetlocOf(url) ==
    IF HasNetloc(url)
    THEN SubSeq(AfterScheme(url), 3, NetlocEnd(AfterScheme(url)) - 1)
    ELSE <<>>

\* urlsplit raises ValueError("Invalid IPv6 URL") on an unbalanced bracket
urlparse_raises(url) ==
    \/ In("[", NetlocOf(url)) /\ ~In("]", NetlocOf(url))
    \/ In("]", NetlocOf(url)) /\ ~In("[", NetlocOf(url))

\* urlparse(url, scheme=default), for a url on which it does not raise
urlparse(url, default) ==
    LET rest0 == AfterScheme(url)
        rest1 == IF HasNetloc(url) THEN Drop(rest0, NetlocEnd(rest0) - 1) ELSE rest0
        frag  == IF In("#", rest1) THEN SplitTail(rest1, "#") ELSE <<>>
        rest2 == SplitHead(rest1, "#")
        qry   == IF In("?", rest2) THEN SplitTail(rest2, "?") ELSE <<>>
    IN  [scheme   |-> IF HasScheme(url) THEN Take(url, Find(url, ":") - 1) ELSE default,
         netloc   |-> NetlocOf(url),
         path     |-> SplitHead(rest2, "?"),
         query    |-> qry,
         fragment |-> frag]

\* urlunparse
urlunparse(p) ==
    LET u1 == IF p.netloc # <<>> \/ (p.scheme # <<>> /\ p.scheme \in uses_netloc
                                      /\ Take(p.path, 2) # <<"/", "/">>)
              THEN <<"/", "/">> \o p.netloc
                   \o (IF p.path # <<>> /\ Head(p.path) # "/" THEN <<"/">> ELSE <<>>)
                   \o p.path
              ELSE p.path
        u2 == IF p.scheme # <<>> THEN p.scheme \o <<":">> \o u1 ELSE u1
        u3 == IF p.query # <<>> THEN u2 \o <<"?">> \o p.query ELSE u2
    IN  IF p.fragment # <<>> THEN u3 \o <<"#">> \o p.fragment ELSE u3

\* urljoin raises when parsing either argument raises
urljoin_raises(base, url) ==
    base # <<>> /\ url # <<>> /\ (urlparse_raises(base) \/ urlparse_raises(url))

\* urljoin(base, url); the modelled references have no '.' or '..' segments
urljoin(base, url) ==
    IF base = <<>> THEN url
    ELSE IF url = <<>> THEN base
    ELSE LET b == urlparse(base, <<>>)
             u == urlparse(url, b.scheme)
         IN  IF u.scheme # b.scheme \/ u.scheme \notin uses_relative THEN url
             ELSE IF u.scheme \in uses_netloc /\ u.netloc # <<>> THEN urlunparse(u)
             ELSE IF u.path = <<>>
                  THEN urlunparse([u EXCEPT !.netloc = b.netloc, !.path = b.path,
                                     !.query = IF u.query = <<>> THEN b.query ELSE u.query])
             ELSE IF Head(u.path) = "/"
                  THEN urlunparse([u EXCEPT !.netloc = b.netloc])
             ELSE urlunparse([u EXCEPT !.netloc = b.netloc,
                                !.path = Take(b.path, RFind(b.path, "/")) \o u.path])

\* ------------------------------------------------------------------------
\* DocumentationScraper._is_valid_url
\* ------------------------------------------------------------------------
\* lines 80-83: the local copy of url loses its fragment and its query
\* mutant: lines 80-83 keep what follows the first '?'
StripForValidation_Tail(url) ==
    LET u == SplitHead(url, "#")
    IN  IF In("?", u) THEN SplitTail(u, "?") ELSE u

\* lines 80-83: url.split('#')[0].split('?')[0]
StripForValidation(url) == SplitHead(SplitHead(url, "#"), "?")

\* mutant: the comparison with the base URL's netloc (line 90) is missing
_is_valid_url_AnyHost(url, base_url) ==
    IF url = <<>> THEN FALSE
    ELSE LET stripped == StripForValidation(url)
         IN  IF urlparse_raises(stripped) \/ urlparse_raises(base_url) THEN FALSE
             ELSE LET result == urlparse(stripped, <<>>)
                  IN  /\ result.scheme # <<>> /\ result.netloc # <<>>
                      /\ result.scheme \in {S_HTTP, S_HTTPS}

\* mutant: the test of the scheme (line 89) is missing
_is_valid_url_AnyScheme(url, base_url) ==
    IF url = <<>> THEN FALSE
    ELSE LET stripped == StripForValidation(url)
         IN  IF urlparse_raises(stripped) \/ urlparse_raises(base_url) THEN FALSE
             ELSE LET result      == urlparse(stripped, <<>>)
                      base_parsed == urlparse(base_url, <<>>)
                  IN  /\ result.scheme # <<>> /\ result.netloc # <<>>
                      /\ result.netloc = base_parsed.netloc

_is_valid_url(url, base_url) ==
    IF url = <<>> THEN FALSE
    ELSE LET stripped == StripForValidation(url)
         IN  IF urlparse_raises(stripped) \/ urlparse_raises(base_url) THEN FALSE
             ELSE LET result      == urlparse(stripped, <<>>)
                      base_parsed == urlparse(base_url, <<>>)
                  IN  /\ result.scheme # <<>> /\ result.netloc # <<>>
                      /\ result.scheme \in {S_HTTP, S_HTTPS}
                      /\ result.netloc = base_parsed.netloc

\* lines 85-89: the errors the statements of the try block raise; urlparse
\* raises ValueError, the comparisons of lines 87-89 raise nothing
TryErrors(url, base_url) ==
    IF urlparse_raises(StripForValidation(url)) \/ urlparse_raises(base_url)
    THEN {"ValueError"} ELSE {}

\* a handler that catches nothing
Caught_Nothing == {}

\* line 91: except ValueError
Caught == {"ValueError"}

\* whether _is_valid_url(url) raises: lines 76-83 raise nothing on a str, and
\* an error of the try block leaves the function when line 91 does not catch it
_is_valid_url_raises(url, base_url) ==
    url # <<>> /\ TryErrors(url, base_url) \ Caught # {}

\* ------------------------------------------------------------------------
\* The crawled site: the URLs and links the runs are checked on
\* ------------------------------------------------------------------------
SEP == <<":", "/", "/">>

\* http://d/a, http://d/b, http://d/c/ : the pages of host d that carry links
UA == S_HTTP \o SEP \o <<"d", "/", "a">>
UB == S_HTTP \o SEP \o <<"d", "/", "b">>
UC == S_HTTP \o SEP \o <<"d", "/", "c", "/">>
\* http://d/c/d : what the reference d on page http://d/c/ names, a page without links
UD == UC \o <<"d">>
LinkPages == {UA, UB, UC}
\* the pages the server of host d has
Pages == LinkPages \cup {UD}

\* ftp://d/a : a base URL whose scheme is neither http nor https
UFTP == S_FTP \o SEP \o <<"d", "/", "a">>

\* the href values that occur on pages
h_a     == <<"a">>
h_b     == <<"b">>
h_c     == <<"/", "c", "/">>
h_d     == <<"d">>
h_query == UB \o <<"?", "q", "#", "f">>
h_other == S_HTTP \o SEP \o <<"o", "/", "a">>
h_ftp   == S_FTP \o SEP \o <<"d", "/", "c">>
h_bad   == S_HTTP \o SEP \o <<"[">>
h_up    == <<"/", "a">>
\* the href values of the generated sites, and all of them
GenHrefs == {h_a, h_b, h_c, h_d, h_query, h_other, h_bad}
Hrefs == GenHrefs \cup {h_ftp, h_up}

\* all subsets of S with at most k elements
RECURSIVE SubsetsUpTo(_, _)
SubsetsUpTo(S, k) ==
    IF k = 0 THEN {{}}
    ELSE LET P == SubsetsUpTo(S, k - 1)
         IN  P \cup {p \cup {e} : p \in P, e \in S}

\* A site is static: links is the set of <<page, href>> pairs (the <a href>
\* elements of each page) and down the pages whose fetch fails.
\* every page links to itself and to the other page
SelfRefSite == [links |-> {<<UA, h_a>>, <<UA, h_b>>, <<UB, h_b>>, <<UB, h_a>>},
                down  |-> {}]

\* A links to B and C, fetching B fails, C links to D
FailureSite == [links |-> {<<UA, h_b>>, <<UA, h_c>>, <<UB, h_query>>, <<UC, h_d>>},
                down  |-> {UB}]

\* a cycle through the three pages, with links that leave the site and the scheme
ThreeCycle == [links |-> {<<UA, h_b>>, <<UB, h_c>>, <<UC, h_up>>, <<UC, h_other>>,
                           <<UC, h_ftp>>},
               down  |-> {}]

Sites ==
    {[links |-> L, down |-> D] :
        L \in SubsetsUpTo(LinkPages \X GenHrefs, MaxEdges),
        D \in {{}, {UA}, {UB}}}
    \cup {SelfRefSite, FailureSite, ThreeCycle}

\* the base URLs discover_urls is called with
Bases == {UA, UFTP}

\* the chunk sizes discover_urls is called with
ChunkSizes == (-1)..MaxChunk

\* a response of _fetch_url: None, or the markup (its href values)
NoContent == [status |-> "none", hrefs |-> {}]
Pending   == [status |-> "pending", hrefs |-> {}]

\* ------------------------------------------------------------------------
\* State
\* ------------------------------------------------------------------------
VARIABLES
    site,                 \* the static site being crawled
    base_url,             \* self.base_url
    visited_urls,         \* self.visited_urls
    doc_urls,             \* self.doc_urls
    pc,                   \* position of the discover_urls call
    chunk_size,           \* argument of the running call
    initial_urls,         \* local of discover_urls: the frontier
    all_discovered_urls,  \* local of discover_urls
    url_chunks,           \* local of discover_urls: the chunks of this wave
    chunk_i,              \* index of the chunk _process_with_multiprocessing is at
    new_urls,             \* union of the sets the processed chunks returned
    tasks,                \* local of _process_chunk: the URLs whose fetch was created
    responses,            \* local of _process_chunk: what the fetches returned
    dispatched,           \* number of _fetch_url calls of the running call
    prev,                 \* base, chunk size and list of the latest earlier call that
                          \* returned with chunk_size > 0
    caller_list,          \* what the caller of the latest return sees in the list
                          \* object it was handed (line 214 returns self.doc_urls
                          \* itself, not a copy)
    cand,                 \* the parts of the URL handed to _is_valid_url
    verdicts,             \* what the calls of _is_valid_url on cand returned
    other,                \* the locals of the discover_urls call another thread
                          \* makes on the same scraper, while that thread waits
    valid_raised,         \* whether a call of _is_valid_url on cand raised
    markup,               \* the elements of the document handed to _extract_text
    extracted,            \* what the calls of _extract_text on markup gave
    vector_store,         \* main.vector_store
    doc_llm,              \* main.doc_llm
    api_keys,             \* the providers whose key is set in os.environ
    status,               \* what the latest process_url returned
    reply                 \* what the calls of query_docs gave

\* the variables of discover_urls
crawlvars == <<site, base_url, visited_urls, doc_urls, pc, chunk_size, initial_urls,
               all_discovered_urls, url_chunks, chunk_i, new_urls, tasks, responses,
               dispatched, prev, caller_list>>

\* the variables of the calls of _is_valid_url made from outside a crawl
validvars == <<cand, verdicts, valid_raised>>

\* the variables of the calls of _extract_text
textvars == <<markup, extracted>>

\* the variables of the application (src/main.py)
appvars == <<vector_store, doc_llm, api_keys, status, reply>>

vars == <<crawlvars, other, validvars, textvars, appvars>>

\* the variables a step of discover_urls does not touch
aside == <<other, validvars, textvars, appvars>>

\* no earlier call
NoCall == [base |-> <<>>, size |-> 0, list |-> <<>>]

\* __init__ (lines 22-26), before any call
InitScraper ==
    /\ base_url = <<>>
    /\ visited_urls = {}
    /\ doc_urls = <<>>
    /\ pc = "idle"
    /\ chunk_size = 10
    /\ initial_urls = {}
    /\ all_discovered_urls = {}
    /\ url_chunks = <<>>
    /\ chunk_i = 0
    /\ new_urls = {}
    /\ tasks = <<>>
    /\ responses = <<>>
    /\ dispatched = 0
    /\ prev = NoCall
    /\ caller_list = <<>>

\* the locals of the call of thread t, which has not started
Unstarted(t) ==
    [id |-> t, pc |-> "idle", chunk_size |-> 10, initial_urls |-> {},
     all_discovered_urls |-> {}, url_chunks |-> <<>>, chunk_i |-> 0, new_urls |-> {},
     tasks |-> <<>>, responses |-> <<>>, dispatched |-> 0, caller_list |-> <<>>]

\* one thread uses the scraper
NoOther == other = Unstarted(2)

\* no URL has been handed to _is_valid_url from outside
NoCand == [scheme |-> <<>>, netloc |-> <<>>, path |-> <<>>, query |-> <<>>,
           fragment |-> <<>>]

NoValidation == cand = NoCand /\ verdicts = <<>> /\ valid_raised = FALSE

\* no document has been handed to _extract_text
NoText == markup = <<>> /\ extracted = <<>>

\* Python's None, a str, and the agent initialize_llm builds
PyNone == [type |-> "NoneType", val |-> ""]
PyStr(s) == [type |-> "str", val |-> s]
Agent(choice) == [type |-> "CustomAgent", val |-> choice]

\* main.py lines 59-62, with no key in the environment and no call made
NoApp ==
    /\ vector_store = PyNone
    /\ doc_llm = PyNone
    /\ api_keys = {}
    /\ status = <<>>
    /\ reply = <<>>

Init == site \in Sites /\ InitScraper /\ NoOther /\ NoValidation /\ NoText /\ NoApp

\* ------------------------------------------------------------------------
\* DocumentationScraper._fetch_url
\* ------------------------------------------------------------------------
\* The request names the URL without its fragment; the static server of host
\* d ignores the query string.  Any other URL (other host, other scheme, no
\* such page) and any page that is down gives an error or a non-200 status.
\* mutant: the except clause of lines 112-114 is missing, the error leaves _fetch_url
_fetch_url_NoCatch(s, url) ==
    LET key == SplitHead(SplitHead(url, "#"), "?")
    IN  IF key \in Pages \ s.down
        THEN [status |-> "ok", hrefs |-> {e[2] : e \in {l \in s.links : l[1] = key}}]
        ELSE [status |-> "raised", hrefs |-> {}]

_fetch_url(s, url) ==
    LET key == SplitHead(SplitHead(url, "#"), "?")
    IN  IF key \in Pages \ s.down
        THEN [status |-> "ok", hrefs |-> {e[2] : e \in {l \in s.links : l[1] = key}}]
        ELSE NoContent

\* ------------------------------------------------------------------------
\* DocumentationScraper.discover_urls and what it calls
\* ------------------------------------------------------------------------
Min(a, b) == IF a < b THEN a ELSE b

\* list(initial_urls): the elements of the set in some order
ListsOf(S) ==
    {f \in [1..Cardinality(S) -> S] : \A i, j \in 1..Cardinality(S) : f[i] = f[j] => i = j}

\* mutant: the range stops at len(lst) - chunk_size, a last short chunk is lost
Chunks_DropShort(lst, size) ==
    IF size < 0 THEN <<>>
    ELSE [k \in 1..(Len(lst) \div size) |->
             SubSeq(lst, (k - 1) * size + 1, k * size)]

\* mutant: the frontier is handed over as one chunk
Chunks_Whole(lst, size) == <<lst>>

\* lines 199-200: [lst[i:i + chunk_size] for i in range(0, len(lst), chunk_size)]
\* for chunk_size # 0; a negative step gives an empty range
Chunks(lst, size) ==
    IF size < 0 THEN <<>>
    ELSE [k \in 1..((Len(lst) + size - 1) \div size) |->
             SubSeq(lst, (k - 1) * size + 1, Min(k * size, Len(lst)))]

\* lines 129-132: the URLs of the chunk that are not yet visited, in order
TasksOf(urls, visited) == SelectSeq(urls, LAMBDA u : u \notin visited)

\* mutant: line 131 binds the Visited Set to the URLs of the chunk
MarkVisited_Replace(visited, urls) == Range(urls)

\* mutant: line 131 is missing, no URL is marked
MarkVisited_Never(visited, urls) == visited

\* lines 130-131: each URL of the chunk not yet in the Visited Set is added to
\* it before its fetch is created; no await lies between the test and the add
MarkVisited(visited, urls) == visited \cup Range(urls)

\* lines 136-137: zip(urls, responses) pairs the k-th URL with the k-th response
Zipped(urls, resps) == 1..Min(Len(urls), Len(resps))

\* line 134: gather re-raises the error of a fetch that raised
GatherRaises(resps) == \E k \in DOMAIN resps : resps[k].status = "raised"

\* lines 146-149: urljoin raises on one of the href values of a fetched page
ParseRaises(urls, resps) ==
    \E k \in Zipped(urls, resps) :
        /\ resps[k].status = "ok"
        /\ \E href \in resps[k].hrefs : href # <<>> /\ urljoin_raises(urls[k], href)

\* mutant: line 149 resolves the href against the base URL of the crawl
Discovered_AgainstBase(urls, resps, base) ==
    {full_url \in
        UNION {{urljoin(base, href) :
                    href \in {h \in resps[k].hrefs : h # <<>> /\ ~urljoin_raises(urls[k], h)}} :
               k \in {z \in Zipped(urls, resps) : resps[z].status = "ok"}} :
        _is_valid_url(full_url, base)}

\* mutant: line 149 resolves every href against the first URL of the chunk
Discovered_AgainstFirst(urls, resps, base) ==
    {full_url \in
        UNION {{urljoin(urls[1], href) :
                    href \in {h \in resps[k].hrefs : h # <<>> /\ ~urljoin_raises(urls[k], h)}} :
               k \in {z \in Zipped(urls, resps) : resps[z].status = "ok"}} :
        _is_valid_url(full_url, base)}

\* lines 136-153: the set _process_chunk returns
Discovered(urls, resps, base) ==
    {full_url \in
        UNION {{urljoin(urls[k], href) :
                    href \in {h \in resps[k].hrefs : h # <<>> /\ ~urljoin_raises(urls[k], h)}} :
               k \in {z \in Zipped(urls, resps) : resps[z].status = "ok"}} :
        _is_valid_url(full_url, base)}

\* mutant: line 210 is missing, URLs accumulated before come back
NextFrontier_NoFilter(new, all_discovered, base) ==
    {url \in new : _is_valid_url(url, base)}

\* lines 209-211: the frontier of the next wave
NextFrontier(new, all_discovered, base) ==
    {url \in new : url \notin all_discovered /\ _is_valid_url(url, base)}

\* mutant: line 206 assigns the frontier instead of adding it
Accumulate_Overwrite(all_discovered, initial) == initial

\* line 206: all_discovered_urls.update(initial_urls)
Accumulate(all_discovered, initial) == all_discovered \cup initial

\* list(S) in the order opposite to the sorted one
RECURSIVE reversed(_)
reversed(q) == IF q = <<>> THEN <<>> ELSE reversed(Tail(q)) \o <<Head(q)>>

\* mutant: line 213 sorts in descending order
FinalList_Descending(all_discovered) == reversed(sorted(all_discovered))

\* line 213
FinalList(all_discovered) == sorted(all_discovered)

\* the locals of discover_urls and _process_chunk, gone when the call ends
NoLocals ==
    /\ initial_urls' = {}
    /\ all_discovered_urls' = {}
    /\ url_chunks' = <<>>
    /\ chunk_i' = 0
    /\ new_urls' = {}
    /\ tasks' = <<>>
    /\ responses' = <<>>

\* mutant: line 194 starts the crawl with an empty frontier
Seed_Empty(b) == {}

\* line 194: initial_urls = {base_url}
Seed(b) == {b}

\* mutant: line 190 is missing, the Visited Set of the earlier call stays
ClearedVisited_Kept(visited) == visited

\* line 190: self.visited_urls.clear()
ClearedVisited(visited) == {}

\* lines 189-195 (use_test_urls keeps its default, False); line 191 empties in
\* place the list object self.doc_urls is bound to, which is the object the
\* latest return handed to its caller
Call(b, size) ==
    /\ pc \in {"idle", "returned", "raised"}
    /\ base_url' = b
    /\ visited_urls' = ClearedVisited(visited_urls)
    /\ doc_urls' = <<>>
    /\ chunk_size' = size
    /\ initial_urls' = Seed(b)
    /\ all_discovered_urls' = {}
    /\ pc' = "while"
    /\ dispatched' = 0
    /\ prev' = IF pc = "returned" /\ chunk_size > 0
               THEN [base |-> base_url, size |-> chunk_size, list |-> doc_urls]
               ELSE prev
    /\ caller_list' = <<>>
    /\ UNCHANGED <<site, url_chunks, chunk_i, new_urls, tasks, responses>>
    /\ UNCHANGED aside

\* lines 197-200: the frontier is not empty and is cut into chunks;
\* range() raises ValueError when its step is 0
MakeChunks ==
    /\ pc = "while"
    /\ initial_urls # {}
    /\ IF chunk_size = 0
       THEN /\ pc' = "raised"
            /\ NoLocals
       ELSE \E lst \in ListsOf(initial_urls) :
               /\ url_chunks' = Chunks(lst, chunk_size)
               /\ chunk_i' = 1
               /\ new_urls' = {}
               /\ pc' = IF Chunks(lst, chunk_size) = <<>> THEN "update" ELSE "chunk"
               /\ UNCHANGED <<initial_urls, all_discovered_urls, tasks, responses>>
    /\ UNCHANGED <<site, base_url, visited_urls, doc_urls, chunk_size, dispatched, prev,
                   caller_list>>
    /\ UNCHANGED aside

\* lines 126-132: _process_chunk marks the URLs of the chunk and creates their fetches
Dispatch ==
    /\ pc = "chunk"
    /\ LET urls == url_chunks[chunk_i]
       IN  /\ tasks' = TasksOf(urls, visited_urls)
           /\ visited_urls' = MarkVisited(visited_urls, urls)
           /\ responses' = [k \in 1..Len(TasksOf(urls, visited_urls)) |-> Pending]
           /\ dispatched' = dispatched + Len(TasksOf(urls, visited_urls))
    /\ pc' = "gather"
    /\ UNCHANGED <<site, base_url, doc_urls, chunk_size, initial_urls, all_discovered_urls,
                   url_chunks, chunk_i, new_urls, prev, caller_list>>
    /\ UNCHANGED aside

\* mutant: a fetch that completes puts the links of its page into the shared
\* set itself
FetchDone_AddsLinks(k) ==
    /\ pc = "gather"
    /\ responses[k] = Pending
    /\ responses' = [responses EXCEPT ![k] = _fetch_url(site, tasks[k])]
    /\ new_urls' = new_urls \cup Discovered(<<tasks[k]>>, <<_fetch_url(site, tasks[k])>>,
                                            base_url)
    /\ UNCHANGED <<site, base_url, visited_urls, doc_urls, pc, chunk_size, initial_urls,
                   all_discovered_urls, url_chunks, chunk_i, tasks,
                   dispatched, prev, caller_list>>
    /\ UNCHANGED aside

\* lines 94-114: one of the fetches in flight completes
FetchDone(k) ==
    /\ pc = "gather"
    /\ responses[k] = Pending
    /\ responses' = [responses EXCEPT ![k] = _fetch_url(site, tasks[k])]
    /\ UNCHANGED <<site, base_url, visited_urls, doc_urls, pc, chunk_size, initial_urls,
                   all_discovered_urls, url_chunks, chunk_i, new_urls, tasks,
                   dispatched, prev, caller_list>>
    /\ UNCHANGED aside

\* lines 134-153 and 167-170: gather has every response; the pages are scanned
\* for links; an error raised by a fetch or by urljoin leaves discover_urls
ProcessResponses ==
    /\ pc = "gather"
    /\ \A k \in DOMAIN responses : responses[k] # Pending
    /\ LET urls == url_chunks[chunk_i]
       IN  IF GatherRaises(responses) \/ ParseRaises(urls, responses)
           THEN /\ pc' = "raised"
                /\ NoLocals
           ELSE /\ new_urls' = new_urls \cup Discovered(urls, responses, base_url)
                /\ chunk_i' = chunk_i + 1
                /\ pc' = IF chunk_i = Len(url_chunks) THEN "update" ELSE "chunk"
                /\ tasks' = <<>>
                /\ responses' = <<>>
                /\ UNCHANGED <<initial_urls, all_discovered_urls, url_chunks>>
    /\ UNCHANGED <<site, base_url, visited_urls, doc_urls, chunk_size, dispatched, prev,
                   caller_list>>
    /\ UNCHANGED aside

\* lines 171 and 203-211
UpdateFrontier ==
    /\ pc = "update"
    /\ all_discovered_urls' = Accumulate(all_discovered_urls, initial_urls)
    /\ initial_urls' = NextFrontier(new_urls, Accumulate(all_discovered_urls, initial_urls),
                                    base_url)
    /\ pc' = "while"
    /\ UNCHANGED <<site, base_url, visited_urls, doc_urls, chunk_size, url_chunks, chunk_i,
                   new_urls, tasks, responses, dispatched, prev, caller_list>>
    /\ UNCHANGED aside

\* lines 197 and 213-214: the frontier is empty; the list returned is self.doc_urls
Finish ==
    /\ pc = "while"
    /\ initial_urls = {}
    /\ doc_urls' = FinalList(all_discovered_urls)
    /\ caller_list' = FinalList(all_discovered_urls)
    /\ pc' = "returned"
    /\ NoLocals
    /\ UNCHANGED <<site, base_url, visited_urls, chunk_size, dispatched, prev>>
    /\ UNCHANGED aside

Step ==
    \/ MakeChunks
    \/ Dispatch
    \/ \E k \in DOMAIN responses : FetchDone(k)
    \/ ProcessResponses
    \/ UpdateFrontier
    \/ Finish

Next ==
    \/ \E b \in Bases, size \in ChunkSizes : Call(b, size)
    \/ Step

Spec == Init /\ [][Next]_vars

\* ------------------------------------------------------------------------
\* Two threads calling discover_urls on one scraper
\* ------------------------------------------------------------------------
\* discover_urls is a plain method that drives the event loop of its thread
\* (line 168), so two of its calls on one scraper overlap only when two
\* threads make them.  Each thread has its own locals; base_url, visited_urls
\* and doc_urls are attributes of the one scraper (lines 22-26).  The thread
\* that runs is the one whose locals are in the variables of discover_urls;
\* the locals of the waiting thread are in `other`.

\* the base URL each thread crawls from
ArgOf == <<UA, UB>>

\* the sites the two threads crawl
OverlapSites == {SelfRefSite, FailureSite, ThreeCycle}

\* the thread that runs
cur == 3 - other.id

\* the locals of the running thread
Locals ==
    [id |-> cur, pc |-> pc, chunk_size |-> chunk_size, initial_urls |-> initial_urls,
     all_discovered_urls |-> all_discovered_urls, url_chunks |-> url_chunks,
     chunk_i |-> chunk_i, new_urls |-> new_urls, tasks |-> tasks,
     responses |-> responses, dispatched |-> dispatched, caller_list |-> caller_list]

OverlapInit ==
    /\ site \in OverlapSites
    /\ InitScraper
    /\ other = Unstarted(2)
    /\ NoValidation
    /\ NoText
    /\ NoApp

\* lines 173-214: the running thread calls discover_urls, once
OverlapCall ==
    /\ pc = "idle"
    /\ \E size \in 1..MaxChunk : Call(ArgOf[cur], size)

\* the running thread is suspended and the other thread runs on: the locals
\* change hands, the attributes of the scraper stay
Switch ==
    /\ other' = Locals
    /\ pc' = other.pc
    /\ chunk_size' = other.chunk_size
    /\ initial_urls' = other.initial_urls
    /\ all_discovered_urls' = other.all_discovered_urls
    /\ url_chunks' = other.url_chunks
    /\ chunk_i' = other.chunk_i
    /\ new_urls' = other.new_urls
    /\ tasks' = other.tasks
    /\ responses' = other.responses
    /\ dispatched' = other.dispatched
    /\ caller_list' = other.caller_list
    /\ UNCHANGED <<site, base_url, visited_urls, doc_urls, prev>>
    /\ UNCHANGED <<validvars, textvars, appvars>>

OverlapNext ==
    \/ OverlapCall
    \/ Step
    \/ Switch

OverlapSpec == OverlapInit /\ [][OverlapNext]_vars

\* ------------------------------------------------------------------------
\* DocumentationScraper._is_valid_url called on its own
\* ------------------------------------------------------------------------
\* The URLs handed to _is_valid_url are written from their five parts, so
\* that what the function makes of the text can be held against the parts.
N_D    == <<"d">>
N_O    == <<"o">>
N_SUB  == <<"o", ".", "d">>
N_BAD  == <<"[">>
P_ABS  == <<"/", "a">>
P_ADDR == <<"a", "@", "b">>

CandSchemes == {<<>>, S_HTTP, S_HTTPS, S_FTP, S_MAILTO}
CandNetlocs == {<<>>, N_D, N_O, N_SUB, N_BAD}
CandPaths   == {<<>>, P_ABS, P_ADDR}

\* a path that follows a netloc starts with '/'
Candidates ==
    {c \in [scheme : CandSchemes, netloc : CandNetlocs, path : CandPaths,
            query : {<<>>, <<"q">>}, fragment : {<<>>, <<"f">>}] :
        c.netloc # <<>> => c.path \in {<<>>, P_ABS}}

\* the text of a URL with these parts
Build(c) ==
    (IF c.scheme # <<>> THEN c.scheme \o <<":">> ELSE <<>>)
    \o (IF c.netloc # <<>> THEN <<"/", "/">> \o c.netloc ELSE <<>>)
    \o c.path
    \o (IF c.query # <<>> THEN <<"?">> \o c.query ELSE <<>>)
    \o (IF c.fragment # <<>> THEN <<"#">> \o c.fragment ELSE <<>>)

\* the base URLs the scraper may hold: none yet (line 24), and those set by
\* an earlier discover_urls (line 189)
Scopes ==
    {NoCand,
     [NoCand EXCEPT !.scheme = S_HTTP,  !.netloc = N_D,   !.path = P_ABS],
     [NoCand EXCEPT !.scheme = S_HTTPS, !.netloc = N_SUB, !.path = P_ABS],
     [NoCand EXCEPT !.scheme = S_HTTP,  !.netloc = N_BAD, !.path = P_ABS]}

\* a scraper that is not crawling, with some base URL
ValidInit ==
    /\ site = SelfRefSite
    /\ \E s \in Scopes : base_url = Build(s)
    /\ \E l \in {<<>>, <<UA, UB>>} : visited_urls = Range(l) /\ doc_urls = l
    /\ pc = "idle"
    /\ chunk_size = 10
    /\ initial_urls = {}
    /\ all_discovered_urls = {}
    /\ url_chunks = <<>>
    /\ chunk_i = 0
    /\ new_urls = {}
    /\ tasks = <<>>
    /\ responses = <<>>
    /\ dispatched = 0
    /\ prev = NoCall
    /\ caller_list = <<>>
    /\ NoOther
    /\ cand \in Candidates
    /\ verdicts = <<>>
    /\ valid_raised = FALSE
    /\ NoText
    /\ NoApp

\* a call of _is_valid_url(url) on the scraper: it returns a verdict or raises;
\* lines 66-92 assign no attribute of the scraper
CallValid(url) ==
    /\ IF _is_valid_url_raises(url, base_url)
       THEN valid_raised' = TRUE /\ UNCHANGED verdicts
       ELSE verdicts' = Append(verdicts, _is_valid_url(url, base_url))
            /\ UNCHANGED valid_raised
    /\ UNCHANGED <<crawlvars, other, cand, textvars, appvars>>

\* lines 66-92: _is_valid_url is called on the text of cand
Validate ==
    /\ verdicts = <<>>
    /\ ~valid_raised
    /\ CallValid(Build(cand))

\* lines 66-92: _is_valid_url is called on what lines 80-83 make of the text of
\* cand, the URL without its fragment and its query
ValidateStripped ==
    /\ Len(verdicts) = 1
    /\ ~valid_raised
    /\ CallValid(StripForValidation(Build(cand)))

\* lines 66-92: _is_valid_url is called on the text of cand once more
ValidateAgain ==
    /\ Len(verdicts) = 2
    /\ ~valid_raised
    /\ CallValid(Build(cand))

ValidNext ==
    \/ Validate
    \/ ValidateStripped
    \/ ValidateAgain

ValidSpec == ValidInit /\ [][ValidNext]_vars

\* ------------------------------------------------------------------------
\* DocumentationScraper._clean_text and _extract_text
\* ------------------------------------------------------------------------
\* A character outside ASCII is written as its code point: "U+00E9" is one
\* character.  BS is the backslash.
BS == "\\"
E_ACUTE == "U+00E9"
A_TILDE == "U+00C3"
COPYRIGHT == "U+00A9"
COMB_ACUTE == "U+0301"
COMB_TILDE == "U+0303"
NEWLINE == "U+000A"

HexDigits == {"0", "1", "2", "3", "4", "5", "6", "7", "8", "9",
              "a", "b", "c", "d", "e", "f", "A", "B", "C", "D", "E", "F"}
Whitespace == {" ", NEWLINE}
AsciiWord == HexDigits \cup {"H", "W", "i", "l", "o", "r", "u", "v", "x", "U"}
\* \w of a str pattern: letters and digits of any script
WordChars == AsciiWord \cup {E_ACUTE, A_TILDE}
\* string.printable, as far as the modelled characters go
Printable == AsciiWord \cup Whitespace \cup {"!", "(", ")", ".", ",", "?", "-", BS}

\* line 44, encode('utf-8') read back byte by byte: a character outside
\* ASCII becomes the characters of its UTF-8 bytes
Utf8Bytes(c) == IF c = E_ACUTE THEN <<A_TILDE, COPYRIGHT>> ELSE <<c>>

RECURSIVE Encoded(_)
Encoded(s) == IF s = <<>> THEN <<>> ELSE Utf8Bytes(Head(s)) \o Encoded(Tail(s))

\* the character a \uXXXX escape stands for
Chr(h) ==
    CASE h = <<"0", "0", "4", "1">> -> "A"
      [] h = <<"0", "0", "2", "0">> -> " "
      [] h = <<"0", "0", "2", "8">> -> "("
      [] h = <<"0", "0", "e", "9">> -> E_ACUTE
      [] OTHER -> "?"

IsHex4(s) == Len(s) >= 4 /\ \A i \in 1..4 : s[i] \in HexDigits

\* line 44, decode('unicode_escape') raises UnicodeDecodeError: a backslash
\* ends the text, or \u is not followed by four hexadecimal digits
RECURSIVE DecodeRaises(_)
DecodeRaises(b) ==
    IF b = <<>> THEN FALSE
    ELSE IF Head(b) # BS THEN DecodeRaises(Tail(b))
    ELSE IF Len(b) = 1 THEN TRUE
    ELSE IF b[2] = "u"
         THEN IF IsHex4(Drop(b, 2)) THEN DecodeRaises(Drop(b, 6)) ELSE TRUE
    ELSE DecodeRaises(Drop(b, 2))

\* line 44, decode('unicode_escape') on a text it accepts: \uXXXX gives its
\* character and \\ a backslash (in the texts of the model a backslash
\* stands before u or before a backslash only)
RECURSIVE Decoded(_)
Decoded(b) ==
    IF b = <<>> THEN <<>>
    ELSE IF Head(b) # BS THEN <<Head(b)>> \o Decoded(Tail(b))
    ELSE IF b[2] = "u" THEN <<Chr(SubSeq(b, 3, 6))>> \o Decoded(Drop(b, 6))
    ELSE <<BS>> \o Decoded(Drop(b, 2))

\* the longest run of at most n hexadecimal digits at the start of s
RECURSIVE HexRun(_, _)
HexRun(s, n) ==
    IF n = 0 \/ s = <<>> \/ Head(s) \notin HexDigits THEN 0
    ELSE 1 + HexRun(Tail(s), n - 1)

\* line 45 with the pattern of line 32: a literal \uXXXX, a backslash with x,
\* u or U and one to six hexadecimal digits, and every character that is
\* not a word character, whitespace or one of . , ! ? - are removed
RECURSIVE StripNonChars(_)
StripNonChars(s) ==
    IF s = <<>> THEN <<>>
    ELSE IF Head(s) = BS /\ Len(s) >= 2 /\ s[2] \in {"x", "u", "U"}
            /\ HexRun(Drop(s, 2), 6) >= 1
         THEN IF s[2] = "u" /\ IsHex4(Drop(s, 2))
              THEN StripNonChars(Drop(s, 6))
              ELSE StripNonChars(Drop(s, 2 + HexRun(Drop(s, 2), 6)))
    ELSE IF Head(s) \in WordChars \cup Whitespace \cup {".", ",", "!", "?", "-"}
         THEN <<Head(s)>> \o StripNonChars(Tail(s))
    ELSE StripNonChars(Tail(s))

\* line 46, unicodedata.normalize('NFKD', ...): an accented letter becomes
\* the letter and a combining accent
NFKD(c) ==
    CASE c = E_ACUTE -> <<"e", COMB_ACUTE>>
      [] c = A_TILDE -> <<"A", COMB_TILDE>>
      [] OTHER -> <<c>>

RECURSIVE Normalized(_)
Normalized(s) == IF s = <<>> THEN <<>> ELSE NFKD(Head(s)) \o Normalized(Tail(s))

\* s.strip()
RECURSIVE LStrip(_)
LStrip(s) == IF s # <<>> /\ Head(s) \in Whitespace THEN LStrip(Tail(s)) ELSE s

RECURSIVE RStrip(_)
RStrip(s) ==
    IF s # <<>> /\ s[Len(s)] \in Whitespace THEN RStrip(SubSeq(s, 1, Len(s) - 1)) ELSE s

Strip(s) == RStrip(LStrip(s))

\* a call that raised and a call that returned a str
Raised == [raised |-> TRUE, text |-> <<>>]
Returns(s) == [raised |-> FALSE, text |-> s]

\* lines 34-48
_clean_text(text) ==
    IF DecodeRaises(Encoded(text)) THEN Raised
    ELSE Returns(Strip(SelectSeq(Normalized(StripNonChars(Decoded(Encoded(text)))),
                                 LAMBDA c : c \in Printable)))

\* line 64, ' '.join(text.split()): the runs of whitespace inside a stripped
\* text become one space each
RECURSIVE Collapsed(_)
Collapsed(s) ==
    IF s = <<>> THEN <<>>
    ELSE IF Head(s) \in Whitespace
         THEN IF LStrip(s) = <<>> THEN <<>> ELSE <<" ">> \o Collapsed(LStrip(s))
    ELSE <<Head(s)>> \o Collapsed(Tail(s))

SplitJoin(s) == Collapsed(Strip(s))

\* line 62, get_text(separator=' ', strip=True): the stripped, non-empty
\* texts of the elements, with one space between them
RECURSIVE get_text(_)
get_text(elems) ==
    IF elems = <<>> THEN <<>>
    ELSE LET first == Strip(Head(elems).text)
             rest  == get_text(Tail(elems))
         IN  IF first = <<>> THEN rest
             ELSE IF rest = <<>> THEN first
             ELSE first \o <<" ">> \o rest

\* lines 60-61: the script and style elements are removed from the tree
Decomposed(elems) == SelectSeq(elems, LAMBDA e : e.tag \notin {"script", "style"})

\* lines 50-64
_extract_text(elems) ==
    LET cleaned == _clean_text(get_text(Decomposed(elems)))
    IN  IF cleaned.raised THEN Raised ELSE Returns(SplitJoin(cleaned.text))

\* the texts of the elements the extractor is run on
T_Hello   == <<"H", "e", "l", "l", "o", BS, "u", "0", "0", "4", "1", " ",
               "W", "o", "r", "l", "d", "!">>
T_Evil    == <<"e", "v", "i", "l", "(", ")">>
T_Blanks  == <<" ", "a", " ", NEWLINE, " ", "b", " ">>
T_EscBlank == <<"a", BS, "u", "0", "0", "2", "0", BS, "u", "0", "0", "2", "0", "b">>
T_Doubled == <<"a", BS, BS, "u", "0", "0", "4", "1", "b">>
T_Cut     == <<"a", BS, "u", "0", "0">>
T_Accent  == <<"a", E_ACUTE, BS, "u", "0", "0", "e", "9">>
T_Paren   == <<BS, "u", "0", "0", "2", "8", "a", "-", "b">>

Texts == {<<>>, T_Hello, T_Evil, T_Blanks, T_EscBlank, T_Doubled, T_Cut, T_Accent, T_Paren}
Tags == {"p", "script", "style"}

\* largest number of elements of a document
MaxNodes == 2

Markups == UNION {[1..n -> [tag : Tags, text : Texts]] : n \in 0..MaxNodes}

\* a scraper on which no call was made; a document is at hand
TextInit ==
    /\ site = SelfRefSite
    /\ InitScraper
    /\ NoOther
    /\ NoValidation
    /\ markup \in Markups
    /\ extracted = <<>>
    /\ NoApp

\* lines 50-64: _extract_text is called on the document
Extract ==
    /\ extracted = <<>>
    /\ extracted' = <<_extract_text(markup)>>
    /\ UNCHANGED <<crawlvars, other, validvars, markup, appvars>>

TextNext == Extract

TextSpec == TextInit /\ [][TextNext]_vars

\* ------------------------------------------------------------------------
\* What the claims speak about
\* ------------------------------------------------------------------------
\* host (network location) of a URL, read off the whole URL
Host(u) == urlparse(u, <<>>).netloc

\* same host as base, scheme http or https
InScope(u, base) ==
    /\ ~urlparse_raises(u)
    /\ urlparse(u, <<>>).scheme \in {S_HTTP, S_HTTPS}
    /\ Host(u) = Host(base)

\* the resolved targets of the hyperlinks of the page fetched at u
Targets(s, u) ==
    {urljoin(u, h) : h \in {x \in _fetch_url(s, u).hrefs : ~urljoin_raises(u, x)}}

\* the URLs reachable from base by zero or more in-scope hyperlinks
RECURSIVE ReachFrom(_, _, _)
ReachFrom(s, base, R) ==
    LET N == R \cup {t \in UNION {Targets(s, u) : u \in R} : InScope(t, base)}
    IN  IF N = R THEN R ELSE ReachFrom(s, base, N)

Reachable(s, base) == ReachFrom(s, base, {base})

\* a call with a positive chunk size has returned its list
Returned == pc = "returned" /\ chunk_size > 0

\* C1: every URL of the returned list has the host of the base URL
C1_ScopeContainment ==
    pc = "returned" => \A i \in 1..Len(doc_urls) : Host(doc_urls[i]) = Host(base_url)

\* C1 witness: a crawl of a page that links to another host has returned more than the base
C1_Witness ==
    /\ Returned /\ base_url = UA
    /\ <<UA, h_other>> \in site.links /\ UA \notin site.down
    /\ Len(doc_urls) >= 2

\* C2: when every fetch succeeds the returned list holds exactly the URLs
\* reachable from the base by in-scope hyperlinks
C2_ExactlyReachable ==
    (Returned /\ \A u \in Reachable(site, base_url) : _fetch_url(site, u).status = "ok")
        => Range(doc_urls) = Reachable(site, base_url)

\* C2 witness: a crawl of three waves on which every fetch succeeded
C2_Witness ==
    /\ Returned
    /\ \A u \in Reachable(site, base_url) : _fetch_url(site, u).status = "ok"
    /\ {UA, UB, UC} \subseteq Range(doc_urls)
    /\ <<UA, h_c>> \notin site.links

\* the positions inside a running call
Running == {"while", "chunk", "gather", "update"}

\* some step of the running call can be taken (the guards of Step)
CanStep ==
    \/ pc = "while"
    \/ pc = "chunk" /\ chunk_i \in DOMAIN url_chunks
    \/ pc = "gather"
    \/ pc = "update"

\* steps a wave still has to take: per chunk a dispatch, its fetches and the
\* scan of the responses, then the update of the frontier
RECURSIVE ChunkSteps(_, _)
ChunkSteps(chunks, from) ==
    IF from > Len(chunks) THEN 0
    ELSE Len(chunks[from]) + 2 + ChunkSteps(chunks, from + 1)

PendingCount == Cardinality({k \in DOMAIN responses : responses[k] = Pending})

WaveSteps ==
    CASE pc = "while"  -> IF initial_urls = {} THEN 1 ELSE 3 * Cardinality(initial_urls) + 2
      [] pc = "chunk"  -> ChunkSteps(url_chunks, chunk_i) + 1
      [] pc = "gather" -> PendingCount + 1 + ChunkSteps(url_chunks, chunk_i + 1) + 1
      [] pc = "update" -> 1
      [] OTHER         -> 0

\* every URL a crawl of these sites can come across

RECURSIVE Closure(_)
Closure(U) ==
    LET N == U \cup {urljoin(u, h) : u \in U, h \in {x \in Hrefs : ~urlparse_raises(x)}}
    IN  IF N = U THEN U ELSE Closure(N)

Universe == Closure(Bases)

\* a natural number that bounds the steps the running call can still take:
\* a URL not yet accumulated weighs more than any single wave
Variant ==
    IF pc \notin Running THEN 0
    ELSE (3 * Cardinality(Universe) + 4) * Cardinality(Universe \ all_discovered_urls)
         + WaveSteps

\* C3: every call ends (each of its steps lowers a natural number and it is
\* never stuck); the count of fetches, which starts at 0 with the call, never
\* grows beyond the number of reachable same-site URLs; on the site whose two
\* pages link to themselves and to each other the call returns the two URLs
C3_Terminates ==
    /\ [][(pc \in Running) => (Variant' < Variant)]_vars
    /\ [](pc \in Running => CanStep)
    /\ [][(dispatched' > dispatched)
            => (dispatched' <= Cardinality(Reachable(site', base_url')))]_vars
    /\ []((Returned /\ site = SelfRefSite /\ base_url = UA) => doc_urls = <<UA, UB>>)

\* C3 witness: the crawl of the self-referential site has returned after two fetches
C3_Witness ==
    /\ Returned /\ site = SelfRefSite /\ base_url = UA
    /\ dispatched = 2

\* a page the crawl reaches carries a link target on which urljoin raises
MalformedLinkReachable(s, base) ==
    \E u \in Reachable(s, base) : \E h \in _fetch_url(s, u).hrefs : urljoin_raises(u, h)

\* C4: a failed fetch does not end the call; the failed URL is in the returned
\* list, which lacks only what the failed pages alone link to; with A linking
\* to B and C, B failing and C linking to D the list is A, B, C, D
C4_FetchFailureIsolated ==
    /\ (pc = "raised" /\ chunk_size # 0) => MalformedLinkReachable(site, base_url)
    /\ Returned =>
          /\ {u \in Reachable(site, base_url) : _fetch_url(site, u).status # "ok"}
                \subseteq Range(doc_urls)
          /\ Range(doc_urls) = Reachable(site, base_url)
          /\ (site = FailureSite /\ base_url = UA) => doc_urls = <<UA, UB, UC, UD>>

\* C4 witness: the crawl of the site whose page B fails has returned
C4_Witness ==
    /\ Returned /\ site = FailureSite /\ base_url = UA
    /\ _fetch_url(site, UB) = NoContent
    /\ Len(doc_urls) = 4

\* C5: a link target whose resolution raises does not end the call with an error
C5_ParseFailureIsolated ==
    (pc = "raised" /\ chunk_size # 0) => ~MalformedLinkReachable(site, base_url)

\* C6: no URL of the Visited Set, the frontier or the returned list has a
\* fragment or a query
C6_Canonical ==
    \A u \in visited_urls \cup initial_urls \cup Range(doc_urls) :
        ~In("#", u) /\ ~In("?", u)

\* C7: the returned list is strictly increasing in the order of Python's str
C7_SortedNoDuplicates ==
    pc = "returned" =>
        \A i, j \in 1..Len(doc_urls) : i < j => StrLess(doc_urls[i], doc_urls[j])

\* C7 witness: a list of three URLs whose second was discovered after its third
C7_Witness ==
    /\ Returned /\ base_url = UA
    /\ doc_urls = <<UA, UB, h_query>>
    /\ <<UA, h_b>> \notin site.links

\* the scheme of the base URL is neither http nor https
BadBase(b) == urlparse(b, <<>>).scheme \notin {S_HTTP, S_HTTPS}

\* C8: a call with a base URL that is not http(s) dispatches no fetch and
\* returns no list
C8_RejectsBadBase ==
    (pc # "idle" /\ BadBase(base_url)) => (dispatched = 0 /\ pc # "returned")

\* C9: a call with a chunk size of zero or less dispatches no fetch and
\* returns no list
C9_RejectsBadChunkSize ==
    (pc # "idle" /\ chunk_size <= 0) => (dispatched = 0 /\ pc # "returned")

\* C10: a call returns the list that the latest earlier call with the same
\* base URL returned on the same site, whatever the chunk sizes, the orders
\* of the frontier and the orders in which the fetches completed
C10_Deterministic ==
    (Returned /\ prev.base = base_url) => doc_urls = prev.list

\* C10 witness: two calls with different chunk sizes have returned a list of
\* three URLs or more
C10_Witness ==
    /\ Returned /\ prev.base = base_url
    /\ prev.size # chunk_size
    /\ Len(doc_urls) >= 3

\* C11: every returned list is non-empty and holds the base URL of its call,
\* whether or not the fetch of the base succeeded and whether or not the base
\* page carries a link
C11_ContainsBase ==
    pc = "returned" => (Len(doc_urls) >= 1 /\ base_url \in Range(doc_urls))

\* C11 witness: a call whose base page could not be fetched has returned the
\* base alone
C11_Witness ==
    /\ Returned /\ base_url = UA
    /\ _fetch_url(site, UA) = NoContent
    /\ dispatched = 1
    /\ doc_urls = <<UA>>

\* C12: the list handed to a caller is never changed afterwards: no step taken
\* once a call has returned changes what its caller sees in that list
C12_ReturnedListImmutable ==
    [][(pc = "returned") => (caller_list' = caller_list)]_vars

\* the call discover_urls(base) with chunk size `size` run on a scraper on
\* which no call was made before: wave after wave from the frontier {base}
\* with an empty Visited Set, every chunk fetched as a whole
RECURSIVE FreshWaves(_, _, _, _, _)
FreshWaves(s, base, size, frontier, all) ==
    IF frontier = {} THEN FinalList(all)
    ELSE LET chunks == Chunks(sorted(frontier), size)
             fetched(urls) == [k \in 1..Len(urls) |-> _fetch_url(s, urls[k])]
             new == UNION {Discovered(chunks[c], fetched(chunks[c]), base) :
                              c \in DOMAIN chunks}
             acc == Accumulate(all, frontier)
         IN  FreshWaves(s, base, size, NextFrontier(new, acc, base), acc)

FreshCrawl(s, base, size) == FreshWaves(s, base, size, Seed(base), {})

\* C13: a call starts from an empty Visited Set, an empty result list and the
\* frontier {base}, whatever the scraper did before; the list it returns is
\* the list the same call returns on a scraper never used before
C13_UsedEqualsFresh ==
    /\ [][(pc \notin Running /\ pc' = "while")
            => /\ visited_urls' = {}
               /\ initial_urls' = {base_url'}
               /\ all_discovered_urls' = {}
               /\ doc_urls' = <<>>
               /\ dispatched' = 0]_vars
    /\ [](pc = "returned" => doc_urls = FreshCrawl(site, base_url, chunk_size))

\* C13 witness: a scraper that had crawled one base has returned three URLs
\* or more for another base
C13_Witness ==
    /\ Returned /\ prev # NoCall
    /\ prev.base # base_url
    /\ visited_urls # {}
    /\ Len(doc_urls) >= 3

\* C18: within one call no URL is fetched twice, whatever the order in which
\* the fetches of a chunk complete: a fetch is created only for a URL that is
\* not in the Visited Set, the URL is in the set from the very step that
\* creates the fetch, no two fetches of a chunk name the same URL, the set
\* loses nothing while the call runs, and so the number of fetches equals the
\* size of the set
C18_DispatchedOnce ==
    /\ [][(pc = "chunk" /\ pc' = "gather")
            => /\ Range(tasks') \cap visited_urls = {}
               /\ Range(tasks') \subseteq visited_urls'
               /\ Cardinality(Range(tasks')) = Len(tasks')
               /\ dispatched' = dispatched + Len(tasks')]_vars
    /\ [][(pc \in Running) => (visited_urls \subseteq visited_urls')]_vars
    /\ [](pc \in Running => Range(tasks) \subseteq visited_urls)
    /\ [](pc # "idle" => dispatched = Cardinality(visited_urls))

\* C18 witness: in a later wave two fetches are in flight and the second has
\* completed before the first
C18_Witness ==
    /\ pc = "gather" /\ Len(tasks) = 2
    /\ responses[1] = Pending /\ responses[2] # Pending
    /\ Cardinality(visited_urls) >= 3
    /\ dispatched = Cardinality(visited_urls)

\* C19: the links a chunk contributes are the link targets of each of its
\* pages resolved against the URL of that very page (and kept when in scope),
\* never against the base URL or against another URL of the chunk
C19_ResolvedAgainstOwnPage ==
    [][(pc = "gather" /\ pc' \in {"chunk", "update"})
        => new_urls' = new_urls \cup
              {t \in UNION {Targets(site, u) : u \in Range(url_chunks[chunk_i])} :
                  InScope(t, base_url)}]_vars

\* C19 witness: a chunk of two pages has been scanned, one of them the page
\* of the directory /c/ with the relative link d, and the link was resolved
\* below /c/
C19_Witness ==
    /\ pc = "update" /\ base_url = UA
    /\ Len(url_chunks) = 1 /\ Range(url_chunks[1]) = {UB, UC}
    /\ <<UC, h_d>> \in site.links
    /\ UD \in new_urls

\* C20: with a chunk size n >= 1 no chunk holds more than n URLs, no more than
\* n fetches are created at a time and never more than n are in flight; the
\* chunks of a wave are fetched one after the other
C20_BoundedBatch ==
    chunk_size >= 1 =>
        /\ \A c \in DOMAIN url_chunks : Len(url_chunks[c]) <= chunk_size
        /\ Len(tasks) <= chunk_size
        /\ PendingCount <= chunk_size
        /\ PendingCount > 0 => (pc = "gather" /\ Range(tasks) \subseteq Range(url_chunks[chunk_i]))

\* C20 witness: a frontier of two URLs is fetched with chunk size 1; the
\* fetch of its second chunk is in flight alone
C20_Witness ==
    /\ pc = "gather" /\ chunk_size = 1
    /\ Cardinality(initial_urls) = 2
    /\ chunk_i = 2
    /\ PendingCount = 1

\* the parts of the base URL the scraper holds
ScopeOf(base) == CHOOSE s \in Scopes : Build(s) = base

\* an unbalanced bracket in the netloc: the URL does not parse
Malformed(c) == In("[", c.netloc) # In("]", c.netloc)

\* scheme http or https and the very netloc of the scope
Accepted(c, scope) ==
    /\ c.scheme \in {S_HTTP, S_HTTPS}
    /\ c.netloc # <<>> /\ ~Malformed(c)
    /\ c.netloc = scope.netloc

\* the URL https://d/a?q#f
C_Decorated ==
    [scheme |-> S_HTTPS, netloc |-> N_D, path |-> P_ABS, query |-> <<"q">>,
     fragment |-> <<"f">>]

\* C14: _is_valid_url returns True exactly for the URLs whose scheme is http
\* or https and whose netloc is the netloc of the base URL, whatever their
\* query and fragment; it returns False for the empty text, for another host
\* (a sibling, a subdomain, the parent domain) and for mailto:a@b, and True
\* for https://d/a?q#f when the base URL has the netloc d
C14_ValidExactly ==
    verdicts # <<>> =>
        /\ verdicts[1] <=> Accepted(cand, ScopeOf(base_url))
        /\ Build(cand) = <<>> => ~verdicts[1]
        /\ (ScopeOf(base_url).netloc = N_D /\ cand.netloc \in {N_O, N_SUB}) => ~verdicts[1]
        /\ (ScopeOf(base_url).netloc = N_SUB /\ cand.netloc = N_D) => ~verdicts[1]
        /\ cand.scheme = S_MAILTO => ~verdicts[1]
        /\ (ScopeOf(base_url).netloc = N_D /\ cand = C_Decorated) => verdicts[1]

\* C14 witness: https://d/a?q#f was accepted by a scraper whose base URL is
\* http://d/a
C14_Witness ==
    /\ verdicts = <<TRUE>>
    /\ cand = C_Decorated
    /\ base_url = UA

\* the parts of a URL without its query and its fragment
Bare(c) == [c EXCEPT !.query = <<>>, !.fragment = <<>>]

\* C15: the verdict on a URL is the verdict on the URL with its fragment and
\* query stripped, the stripped text is the URL written without the two
\* parts, and every URL with the same scheme, netloc and path gets the same
\* verdict
C15_IgnoresQueryAndFragment ==
    Len(verdicts) = 2 =>
        /\ verdicts[2] = verdicts[1]
        /\ StripForValidation(Build(cand)) = Build(Bare(cand))
        /\ \A c \in Candidates :
              Bare(c) = Bare(cand) => _is_valid_url(Build(c), base_url) = verdicts[1]

\* C15 witness: a URL with a query and a fragment and its stripped text were
\* both accepted
C15_Witness ==
    /\ verdicts = <<TRUE, TRUE>>
    /\ cand.query # <<>> /\ cand.fragment # <<>>
    /\ cand.netloc = N_SUB

\* the document <script>evil()</script><p>Hello\u0041 World!</p>
ExampleMarkup ==
    <<[tag |-> "script", text |-> T_Evil], [tag |-> "p", text |-> T_Hello]>>

\* "Hello World!"
HelloWorld == <<"H", "e", "l", "l", "o", " ", "W", "o", "r", "l", "d", "!">>

\* C16: the extractor turns <script>evil()</script><p>Hello\u0041 World!</p>
\* into "Hello World!"; its output is the output for the document without
\* its script and style elements, holds no backslash, no two whitespace
\* characters in a row and no whitespace at either end
C16_ExtractsCleanText ==
    extracted # <<>> =>
        /\ markup = ExampleMarkup => extracted[1] = Returns(HelloWorld)
        /\ extracted[1] = _extract_text(Decomposed(markup))
        /\ ~extracted[1].raised =>
              LET out == extracted[1].text
              IN  /\ ~In(BS, out)
                  /\ out = Strip(out)
                  /\ \A i \in 1..(Len(out) - 1) :
                        ~(out[i] \in Whitespace /\ out[i + 1] \in Whitespace)

\* ------------------------------------------------------------------------
\* The application: process_url, update_llm and query_docs of src/main.py
\* ------------------------------------------------------------------------
\* the keys of LLM_CONFIGS and the providers get_api_key and set_api_key know
LLM_CONFIGS == {"openai", "claude", "deepseek"}
env_mapping == {"openai", "anthropic", "google", "deepseek"}

Questions == {"", "how", "why"}

\* the sites process_url is run on
AppSites == {SelfRefSite, FailureSite, ThreeCycle,
             [links |-> {<<UA, h_b>>, <<UB, h_bad>>}, down |-> {}]}

\* the module has been imported; the environment holds the keys of some
\* providers
AppInit ==
    /\ site \in AppSites
    /\ InitScraper
    /\ NoOther
    /\ NoValidation
    /\ NoText
    /\ vector_store = PyNone
    /\ doc_llm = PyNone
    /\ api_keys \in SUBSET {"openai", "anthropic"}
    /\ status = <<>>
    /\ reply = <<>>

\* lines 18-48: a new scraper crawls the site with the default chunk size; an
\* error of the crawl is caught and reported
process_url(s, url) ==
    IF MalformedLinkReachable(s, url)
    THEN [status |-> "", urls |-> <<>>, error |-> "Error processing URL"]
    ELSE [status |-> "Successfully processed", urls |-> FreshCrawl(s, url, 10),
          error |-> ""]

ProcessUrl(url) ==
    /\ status' = <<process_url(site, url)>>
    /\ UNCHANGED <<crawlvars, other, validvars, textvars, vector_store, doc_llm, api_keys, reply>>

\* lines 64-77: with a key given, set_api_key stores it; it raises for a
\* choice env_mapping lacks, and so does get_api_key; without any key the
\* call returns a request for one; the construction of the model client
\* succeeds or raises, and the error is caught
UpdateLlm(choice, api_key) ==
    /\ choice \in env_mapping
    /\ api_key # "" \/ choice \in api_keys
    /\ api_keys' = IF api_key # "" THEN api_keys \cup {choice} ELSE api_keys
    /\ doc_llm' \in {doc_llm, Agent(choice)}
    /\ UNCHANGED <<crawlvars, other, validvars, textvars, vector_store, status, reply>>

\* mutant: the test of line 81 is inverted
NoStore_Inverted(vs) == vs # PyNone

\* line 81: not vector_store
NoStore(vs) == vs = PyNone

\* what query_docs raises with
RaisedReply == [raised |-> TRUE, answer |-> PyNone, sources |-> PyNone]

\* lines 79-97: what a call of query_docs can return; the search of line 85
\* is an attribute error on None and otherwise succeeds or raises
query_docs(vs, question) ==
    IF NoStore(vs)
    THEN {[raised |-> FALSE, answer |-> PyStr("Please process documentation first"),
           sources |-> PyStr("")]}
    ELSE IF vs = PyNone THEN {RaisedReply}
    ELSE {RaisedReply,
          [raised |-> FALSE, answer |-> PyStr("Based on the documentation:"),
           sources |-> PyStr("Sources:")]}

QueryDocs(question) ==
    /\ \E r \in query_docs(vector_store, question) :
          reply' = <<[question |-> question, result |-> r]>>
    /\ UNCHANGED <<crawlvars, other, validvars, textvars, vector_store, doc_llm, api_keys, status>>

AppNext ==
    \/ \E url \in Bases : ProcessUrl(url)
    \/ \E choice \in LLM_CONFIGS, api_key \in {"", "k"} : UpdateLlm(choice, api_key)
    \/ \E question \in Questions : QueryDocs(question)

AppSpec == AppInit /\ [][AppNext]_vars

\* C17: query_docs never raises and returns an answer and sources that are
\* not None, whatever was processed, asked or initialised before; while no
\* vector store is built the answer is "Please process documentation first"
\* and the sources are the empty str
C17_QueryAlwaysAnswers ==
    reply # <<>> =>
        LET r == reply[1].result
        IN  /\ ~r.raised
            /\ r.answer # PyNone /\ r.sources # PyNone
            /\ vector_store = PyNone =>
                  /\ r.answer = PyStr("Please process documentation first")
                  /\ r.sources = PyStr("")

\* C17 witness: a question was asked after a site had been processed and a
\* model client had been initialised
C17_Witness ==
    /\ reply # <<>> /\ reply[1].question = "how"
    /\ status # <<>> /\ status[1].error = "" /\ Len(status[1].urls) >= 3
    /\ doc_llm # PyNone

C22_NoMutationInFlight ==
    /\ [][(PendingCount > 0)
            => UNCHANGED <<visited_urls, initial_urls, all_discovered_urls, new_urls>>]_vars
    /\ [][(pc \in Running /\ visited_urls' # visited_urls)
            => (pc = "chunk" /\ tasks = <<>> /\ pc' = "gather")]_vars
    /\ [][(pc \in Running /\ pc' \in Running /\ initial_urls' # initial_urls)
            => (pc = "update" /\ tasks = <<>>)]_vars
    /\ [][(pc \in Running /\ pc' \in Running /\ new_urls' # new_urls)
            => (PendingCount = 0)]_vars

\* C22 witness: of two fetches in flight the first has completed with a page
\* that carries an in-scope link, and the link has not been handed over yet
C22_Witness ==
    /\ pc = "gather" /\ Len(tasks) = 2
    /\ responses[1] # Pending /\ responses[2] = Pending
    /\ Discovered(<<tasks[1]>>, <<responses[1]>>, base_url) # {}
    /\ new_urls = {}

\* C24: when a wave starts no URL of the frontier is in the Visited Set and
\* the Visited Set is the set of URLs accumulated so far; so a fetch is
\* created for every URL of every chunk, in the order of the chunk, and the
\* k-th response is the response of the k-th URL of the chunk
C24_WaveStartAligned ==
    /\ (pc = "while" /\ initial_urls # {}) =>
          /\ initial_urls \cap visited_urls = {}
          /\ visited_urls = all_discovered_urls
    /\ pc = "gather" =>
          /\ tasks = url_chunks[chunk_i]
          /\ Len(responses) = Len(url_chunks[chunk_i])
          /\ \A k \in DOMAIN responses :
                responses[k] \in {Pending, _fetch_url(site, url_chunks[chunk_i][k])}

\* C24 witness: the third wave of a crawl starts with a frontier of one URL
\* and two URLs visited and accumulated
C24_Witness ==
    /\ pc = "while" /\ Cardinality(initial_urls) = 1
    /\ Cardinality(visited_urls) = 2
    /\ visited_urls = all_discovered_urls
    /\ site = ThreeCycle

\* C23: _is_valid_url never raises and has no side effect. A candidate whose
\* parsing raises an error (an unmatched bracket in its host) gets the verdict
\* false; a call leaves the scraper's base URL, Visited Set and result list as
\* they were; and a further call with the same candidate and the same base URL
\* returns the verdict of the first.
C23_ValidatorIsTotalAndPure ==
    /\ [](~valid_raised)
    /\ []((verdicts # <<>> /\ urlparse_raises(StripForValidation(Build(cand))))
            => ~verdicts[1])
    /\ [][(verdicts' # verdicts) => UNCHANGED <<base_url, visited_urls, doc_urls>>]_vars
    /\ [](Len(verdicts) = 3 => verdicts[3] = verdicts[1])

\* a candidate with an unmatched bracket in its host has been judged three
\* times on a scraper whose Visited Set and result list are not empty
C23_Witness ==
    /\ cand.netloc = N_BAD
    /\ cand.scheme = S_HTTP
    /\ ScopeOf(base_url).netloc = N_D
    /\ verdicts = <<FALSE, FALSE, FALSE>>
    /\ visited_urls = {UA, UB}
    /\ doc_urls = <<UA, UB>>

\* what the call of thread t returns when it runs alone on a new scraper
Alone(t, size) == FreshCrawl(site, ArgOf[t], size)

\* C25: two discover_urls calls on one scraper that overlap in time do not
\* interfere: a step of one call changes neither the base URL nor the Visited
\* Set while the other call is under way, and each call returns what it
\* returns when it runs alone.
C25_OverlappingCallsIndependent ==
    /\ [][(other.pc \in Running /\ other' = other)
            => UNCHANGED <<base_url, visited_urls>>]_vars
    /\ [](pc = "returned" => caller_list = Alone(cur, chunk_size))
    /\ [](other.pc = "returned" => other.caller_list = Alone(other.id, other.chunk_size))

====
